---- MODULE Spec2Model ----
(***************************************************************************)
(* A model of phoneview_helper.py: the CSV loader (format detection, the   *)
(* two row adapters, identity filtering, redaction, chronological sort),   *)
(* the serializer dump_to_csv, the phone number normalizer/comparator and  *)
(* the label compressor erase_labels.                                      *)
(*                                                                         *)
(* Python strings are sequences of one-character strings, so that the      *)
(* character-level code (str.replace, int(), the label regexp) is computed *)
(* and not assumed.  Python lists are sequences (index i of the source is  *)
(* index i+1 here).  A dict is a function whose DOMAIN is its key set.     *)
(* A call that can raise returns [ok |-> TRUE, ...] or                     *)
(* [ok |-> FALSE, exc |-> <exception name>].                               *)
(***************************************************************************)
EXTENDS Integers, Sequences, FiniteSets, TLC

VARIABLES
    \* ---- load_csv / dump_to_csv -------------------------------------
    have_phonenumbers,        \* whether `import phonenumbers` succeeds
    raw_rows,                 \* the rows csv.reader yields for the file
    phone_number,             \* load_csv argument (None, a str or an int)
    keep_type,                \* load_csv argument
    keep_other_identity,      \* load_csv argument
    pc,                       \* "start", "loaded", "dumped", "reloaded"
    format,                   \* branch taken at line 198
    records,                  \* adapter output, before post-processing
    survived,                 \* indices of `records` appended at line 233
    post_processed_records,   \* the list built by lines 213-233
    result,                   \* what load_csv returns (or raises)
    dumped,                   \* what dump_to_csv returns (or raises)
    reloaded,                 \* load_csv on the rows dump_to_csv wrote
    \* ---- erase_labels -----------------------------------------------
    lst,                      \* argument of erase_labels
    new_lst,                  \* erase_labels(lst)
    new_lst2,                 \* erase_labels(erase_labels(lst))
    epc,                      \* "start", "once", "twice"
    \* ---- _compare_phone_numbers -------------------------------------
    phone_numbers,            \* the *phone_numbers argument tuple
    cmp_result,               \* its return value
    cpc,                      \* "start", "done"
    \* ---- _normalize_phone_number ------------------------------------
    norm_arg,                 \* its argument
    norm_result,              \* its return value or exception
    npc                       \* "start", "done"

load_vars == <<have_phonenumbers, raw_rows, phone_number, keep_type,
               keep_other_identity, pc, format, records, survived,
               post_processed_records, result, dumped, reloaded>>
erase_vars == <<lst, new_lst, new_lst2, epc>>
cmp_vars == <<phone_numbers, cmp_result, cpc>>
norm_vars == <<norm_arg, norm_result, npc>>
vars == <<load_vars, erase_vars, cmp_vars, norm_vars>>

(***************************************************************************)
(* Bounds of the model.                                                    *)
(***************************************************************************)
MaxRows == 3        \* raw rows in an input file
MaxLabels == 3      \* labels in an erase_labels argument
MaxArgs == 3        \* arguments of one _compare_phone_numbers call
MaxNumLen == 3      \* characters of one phone number string

(***************************************************************************)
(* Strings and small helpers.                                              *)
(***************************************************************************)
Range(s) == {s[i] : i \in DOMAIN s}

Min(a, b) == IF a < b THEN a ELSE b

SeqsUpTo(S, n) == UNION {[1..k -> S] : k \in 0..n}

Digits == {"0", "1", "2", "3", "4", "5", "6", "7", "8", "9"}

DigitVal(c) ==
    CASE c = "0" -> 0 [] c = "1" -> 1 [] c = "2" -> 2 [] c = "3" -> 3
      [] c = "4" -> 4 [] c = "5" -> 5 [] c = "6" -> 6 [] c = "7" -> 7
      [] c = "8" -> 8 [] c = "9" -> 9

DigitChar(d) ==
    CASE d = 0 -> "0" [] d = 1 -> "1" [] d = 2 -> "2" [] d = 3 -> "3"
      [] d = 4 -> "4" [] d = 5 -> "5" [] d = 6 -> "6" [] d = 7 -> "7"
      [] d = 8 -> "8" [] d = 9 -> "9"

RECURSIVE NatToStr(_)
NatToStr(n) ==
    IF n < 10 THEN <<DigitChar(n)>>
    ELSE NatToStr(n \div 10) \o <<DigitChar(n % 10)>>

\* str(n) of a Python int
IntToStr(n) == IF n < 0 THEN <<"-">> \o NatToStr(0 - n) ELSE NatToStr(n)

RECURSIVE DigitsToNat(_)
DigitsToNat(s) ==
    IF s = <<>> THEN 0
    ELSE 10 * DigitsToNat(SubSeq(s, 1, Len(s) - 1)) + DigitVal(s[Len(s)])

RECURSIVE LStrip(_)
LStrip(s) == IF s # <<>> /\ s[1] = " " THEN LStrip(Tail(s)) ELSE s

RECURSIVE RStrip(_)
RStrip(s) ==
    IF s # <<>> /\ s[Len(s)] = " " THEN RStrip(SubSeq(s, 1, Len(s) - 1)) ELSE s

\* int(s) of a Python str: surrounding blanks, an optional sign, then one
\* or more decimal digits; anything else is a ValueError.
ParseInt(s) ==
    LET t == RStrip(LStrip(s))
        signed == t # <<>> /\ t[1] \in {"+", "-"}
        body == IF signed THEN Tail(t) ELSE t
    IN  IF body # <<>> /\ Range(body) \subseteq Digits
        THEN [ok |-> TRUE,
              v |-> IF signed /\ t[1] = "-" THEN 0 - DigitsToNat(body)
                    ELSE DigitsToNat(body)]
        ELSE [ok |-> FALSE, exc |-> "ValueError"]

(***************************************************************************)
(* Constants of the source.                                                *)
(***************************************************************************)
s_id == <<"i", "d">>
s_date == <<"d", "a", "t", "e">>
s_address == <<"a", "d", "d", "r", "e", "s", "s">>
s_text == <<"t", "e", "x", "t">>
s_flags == <<"f", "l", "a", "g", "s">>
s_grouptitle == <<"g", "r", "o", "u", "p", "t", "i", "t", "l", "e">>
s_empty == <<>>

PHONEVIEW_INTERNAL_DB_FIELDS == <<s_id, s_date, s_address, s_text, s_flags>>
PHONEVIEW_INTERNAL_RECEIVED == <<"2">>
PHONEVIEW_INTERNAL_SENT == <<"3">>
PHONEVIEW_EXTERNAL_RECEIVED == <<"R", "e", "c", "e", "i", "v", "e", "d">>

(***************************************************************************)
(* Python values handed to the phone number functions.                     *)
(***************************************************************************)
None == [type |-> "NoneType"]
PyStr(s) == [type |-> "str", v |-> s]
PyInt(n) == [type |-> "int", n |-> n]
\* the class object `int` itself, the only value x with `x is int`
IntClass == [type |-> "type", name |-> <<"i", "n", "t">>]

(***************************************************************************)
(* Time.  A naive local datetime is an integer count of wall-clock units;  *)
(* an epoch is an integer count of units since the epoch.  The zone has    *)
(* one daylight-saving fall-back: before epoch DstEnd the wall clock is    *)
(* DstShift ahead, so the wall times in [DstEnd, DstEnd + DstShift) occur  *)
(* twice.                                                                  *)
(***************************************************************************)
DstEnd == 2
DstShift == 1

\* datetime.datetime.fromtimestamp(e): epoch to naive local datetime
fromtimestamp(e) == IF e < DstEnd THEN e + DstShift ELSE e

\* naive_datetime.timestamp(): a repeated wall time is read as its first
\* occurrence (fold = 0, which is all a pandas Timestamp carries)
datetime_timestamp(w) == IF w - DstShift < DstEnd THEN w - DstShift ELSE w

TS_A == <<"N", "o", "v", " ", "1", "1", ",", " ", "2", "0", "1", "2", " ",
          "0", "3", ":", "3", "4", ":", "0", "1", " ", "P", "M">>
TS_B == <<"N", "o", "v", " ", "1", "1", ",", " ", "2", "0", "1", "2", " ",
          "0", "3", ":", "3", "4", ":", "0", "1", " ", "A", "M">>
TS_C == <<"N", "o", "v", " ", "1", "1", ",", " ", "2", "0", "1", "2", " ",
          "1", "5", ":", "3", "4", ":", "0", "1", " ", "P", "M">>

\* datetime.datetime.strptime(s, "%b %d, %Y %H:%M:%S %p") on the timestamp
\* strings of the input pool: %H reads the hour on the 24-hour clock and
\* %p is then matched and ignored, so TS_A and TS_B are the same instant.
\* Every other string of the pool does not match the format.
strptime(s) ==
    CASE s = TS_A -> [ok |-> TRUE, v |-> 3]
      [] s = TS_B -> [ok |-> TRUE, v |-> 3]
      [] s = TS_C -> [ok |-> TRUE, v |-> 4]
      [] OTHER -> [ok |-> FALSE, exc |-> "ValueError"]

(***************************************************************************)
(* _load_internal_phoneview_msg_file                                       *)
(***************************************************************************)
\* one iteration of the loop of lines 83-106
internal_record(row, header) ==
    LET n == Min(Len(header), Len(row))            \* zip() stops at the shorter
        has(k) == \E i \in 1..n : header[i] = k    \* k in row_dict
        \* dict() keeps the last value of a repeated key
        get(k) == row[CHOOSE i \in 1..n :
                        /\ header[i] = k
                        /\ \A j \in 1..n : header[j] = k => j <= i]
        date == ParseInt(get(s_date))
        text == IF has(s_text) THEN get(s_text) ELSE s_empty
        keys == {"length", "content"}
                \cup (IF has(s_date) THEN {"timestamp"} ELSE {})
                \cup (IF has(s_flags) THEN {"inbound"} ELSE {})
                \cup (IF has(s_address) THEN {"number"} ELSE {})
                \cup (IF has(s_grouptitle) /\ get(s_grouptitle) # s_empty
                      THEN {"name"} ELSE {})
    IN  IF has(s_date) /\ ~date.ok
        THEN [ok |-> FALSE, exc |-> date.exc]
        ELSE [ok |-> TRUE,
              rec |-> [k \in keys |->
                  CASE k = "timestamp" -> fromtimestamp(date.v)
                    [] k = "inbound" -> (get(s_flags) = PHONEVIEW_INTERNAL_RECEIVED)
                    [] k = "length" -> Len(text)
                    [] k = "content" -> text
                    [] k = "number" -> get(s_address)
                    [] k = "name" -> get(s_grouptitle)]]

(***************************************************************************)
(* _load_external_phoneview_msg_file                                       *)
(***************************************************************************)
\* the guard of line 137
type_guard(row) == Len(row) >= 5

\* one iteration of the loop of lines 117-140; row[i] of the source is
\* row[i+1] here and raises IndexError when the row has no such field
external_record(row) ==
    IF Len(row) < 2 THEN [ok |-> FALSE, exc |-> "IndexError"]       \* row[1]
    ELSE IF ~strptime(row[2]).ok
    THEN [ok |-> FALSE, exc |-> strptime(row[2]).exc]
    ELSE IF Len(row) < 5 THEN [ok |-> FALSE, exc |-> "IndexError"]  \* row[4]
    ELSE IF type_guard(row) /\ Len(row) < 6
    THEN [ok |-> FALSE, exc |-> "IndexError"]                       \* row[5]
    ELSE [ok |-> TRUE,
          rec |-> [k \in {"timestamp", "inbound", "length", "content",
                          "name", "number", "type"} |->
              CASE k = "timestamp" -> strptime(row[2]).v
                [] k = "inbound" -> (row[1] = PHONEVIEW_EXTERNAL_RECEIVED)
                [] k = "length" -> Len(row[5])
                [] k = "content" -> row[5]
                [] k = "name" -> row[3]
                [] k = "number" -> row[4]
                [] k = "type" -> IF type_guard(row) THEN row[6] ELSE s_empty]]

\* the list an adapter returns, or the exception of the first row that raises
collect(rs) ==
    IF \E i \in DOMAIN rs : ~rs[i].ok
    THEN [ok |-> FALSE,
          exc |-> rs[CHOOSE i \in DOMAIN rs :
                       ~rs[i].ok /\ \A j \in DOMAIN rs : ~rs[j].ok => i <= j].exc]
    ELSE [ok |-> TRUE, v |-> [i \in DOMAIN rs |-> rs[i].rec]]

load_internal_phoneview_msg_file(rows, header) ==
    collect([i \in DOMAIN rows |-> internal_record(rows[i], header)])

load_external_phoneview_msg_file(rows) ==
    collect([i \in DOMAIN rows |-> external_record(rows[i])])

(***************************************************************************)
(* _normalize_phone_number and _compare_phone_numbers                      *)
(***************************************************************************)
IsDigit(c) == c \in Digits

\* phonenumbers.format_number(phonenumbers.parse(p, "US"), E164), the
\* library call of lines 150-155: a str of digits and punctuation becomes
\* "+" and its digits, with the US country code 1 put in front when the
\* string does not start with "+"; any other str does not parse; a value
\* that is no str makes the library raise TypeError.
phonenumbers_e164(p) ==
    IF p.type # "str" THEN [ok |-> FALSE, exc |-> "TypeError"]
    ELSE LET t == LStrip(p.v)
             digits == SelectSeq(t, IsDigit)
         IN  IF \/ digits = <<>>
                \/ ~(Range(t) \subseteq Digits \cup {" ", "(", ")", "-", "+", "."})
             THEN [ok |-> FALSE, exc |-> "NumberParseException"]
             ELSE IF t[1] = "+"
             THEN [ok |-> TRUE, v |-> <<"+">> \o digits]
             ELSE [ok |-> TRUE, v |-> <<"+", "1">> \o digits]

\* str.replace(c, "") for a one-character c
replace(s, c) == SelectSeq(s, LAMBDA x : x # c)

\* the loop of lines 162-163
strip_punctuation(s) ==
    replace(replace(replace(replace(replace(s, " "), "("), ")"), "-"), "+")

\* the test of line 158, `phone_number is int`: identity with the class
\* object int, which no integer value has
phone_number_is_int(p) == p.type = "type"

\* the except ImportError branch, lines 158-163
normalize_fallback(p) ==
    IF phone_number_is_int(p)
    THEN [ok |-> TRUE,                                 \* str(int)
          v |-> <<"<", "c", "l", "a", "s", "s", " ", "'">> \o p.name \o <<"'", ">">>]
    ELSE IF p.type = "str"
    THEN [ok |-> TRUE, v |-> strip_punctuation(p.v)]
    ELSE [ok |-> FALSE, exc |-> "AttributeError"]      \* no .replace

normalize_phone_number(p, lib) ==
    IF lib THEN phonenumbers_e164(p) ELSE normalize_fallback(p)

\* lines 174-175 answering True on an exception
compare_on_exception_true == TRUE

\* what the bare except of lines 174-175 returns
compare_on_exception == FALSE

\* line 173 with "<= 1" for "== 1"
compare_phone_numbers_at_most_one(args, lib) ==
    LET ns == [i \in DOMAIN args |-> normalize_phone_number(args[i], lib)]
    IN  IF \E i \in DOMAIN args : ~ns[i].ok
        THEN compare_on_exception
        ELSE Cardinality({ns[i].v : i \in DOMAIN args}) <= 1

compare_phone_numbers(args, lib) ==
    LET ns == [i \in DOMAIN args |-> normalize_phone_number(args[i], lib)]
    IN  IF \E i \in DOMAIN args : ~ns[i].ok
        THEN compare_on_exception
        ELSE Cardinality({ns[i].v : i \in DOMAIN args}) = 1

(***************************************************************************)
(* load_csv                                                                *)
(***************************************************************************)
\* line 198 with ">= 1" for "> 1"
is_internal_format_at_least_one(first_row) ==
    Cardinality(Range(first_row) \cap Range(PHONEVIEW_INTERNAL_DB_FIELDS)) >= 1

\* the test of line 198
is_internal_format(first_row) ==
    Cardinality(Range(first_row) \cap Range(PHONEVIEW_INTERNAL_DB_FIELDS)) > 1

\* lines 219-221: whether the loop `continue`s on this record
skipped(rec, phone, lib) ==
    /\ phone.type # "NoneType"
    /\ "number" \in DOMAIN rec
    /\ ~compare_phone_numbers(<<PyStr(rec["number"]), phone>>, lib)

\* lines 224-228 without the deletion of "number"
identity_keys_name_only == {"name"}

\* lines 224-228: the keys deleted when keep_other_identity is false
identity_keys == {"name", "number"}

\* lines 224-231: the record as appended at line 233
redacted(rec, kt, koi) ==
    LET gone == (IF ~koi THEN identity_keys ELSE {})
                \cup (IF ~kt THEN {"type"} ELSE {})
    IN  [k \in DOMAIN rec \ gone |-> rec[k]]

\* the indices, in order, of the records the loop of lines 215-233 appends
RECURSIVE kept_indices(_, _, _, _)
kept_indices(recs, i, phone, lib) ==
    IF i > Len(recs) THEN <<>>
    ELSE (IF skipped(recs[i], phone, lib) THEN <<>> ELSE <<i>>)
         \o kept_indices(recs, i + 1, phone, lib)

\* a sort that puts r before the elements of equal key
insert_position_before_equal(t, r) ==
    Cardinality({i \in DOMAIN t : t[i]["timestamp"] < r["timestamp"]})

\* where sorted() puts r in an already sorted list t: after every element
\* whose key is not greater, which is what makes the sort stable
insert_position(t, r) ==
    Cardinality({i \in DOMAIN t : t[i]["timestamp"] <= r["timestamp"]})

\* sorted(s, key=lambda record: record["timestamp"]), lines 239-242
RECURSIVE sorted_by_timestamp(_)
sorted_by_timestamp(s) ==
    IF s = <<>> THEN <<>>
    ELSE LET t == sorted_by_timestamp(SubSeq(s, 1, Len(s) - 1))
             r == s[Len(s)]
             n == insert_position(t, r)
         IN  SubSeq(t, 1, n) \o <<r>> \o SubSeq(t, n + 1, Len(t))

is_monotonic_increasing(rows) ==
    \A i, j \in DOMAIN rows : i < j => rows[i]["timestamp"] <= rows[j]["timestamp"]

\* DataFrame.sort_index(ascending=True), line 247: pandas returns a copy
\* in the same order when the index is already monotonic increasing, and
\* otherwise some ascending arrangement (quicksort, not stable).
sort_index(rows) ==
    IF is_monotonic_increasing(rows) THEN rows
    ELSE CHOOSE t \in [DOMAIN rows -> Range(rows)] :
            /\ is_monotonic_increasing(t)
            /\ \A r \in Range(rows) :
                 Cardinality({i \in DOMAIN t : t[i] = r})
                   = Cardinality({i \in DOMAIN rows : rows[i] = r})

\* pd.DataFrame(list of dicts).set_index("timestamp").sort_index(),
\* lines 245-247.  A row keeps only the cells its record had: a column
\* of `columns` that is no key of a row holds NaN in that row.  The
\* "timestamp" key of a row is the index.
DataFrame(recs) ==
    [kind |-> "DataFrame",
     columns |-> UNION {DOMAIN recs[i] : i \in DOMAIN recs} \ {"timestamp"},
     rows |-> sort_index(recs)]

\* lines 235-249 without the early return of lines 235-236
finish_without_empty_check(post) ==
    IF \E i \in DOMAIN post : "timestamp" \notin DOMAIN post[i]
    THEN [kind |-> "raise", exc |-> "KeyError"]
    ELSE DataFrame(sorted_by_timestamp(post))

\* lines 235-249: what load_csv returns for the post-processed records
finish(post) ==
    IF Len(post) = 0 THEN [kind |-> "None"]
    ELSE IF \E i \in DOMAIN post : "timestamp" \notin DOMAIN post[i]
    THEN [kind |-> "raise", exc |-> "KeyError"]         \* record["timestamp"]
    ELSE DataFrame(sorted_by_timestamp(post))

\* load_csv as a whole; the record carries the locals the claims speak of
load_csv(rows, phone, kt, koi, lib) ==
    IF Len(rows) = 0
    THEN [format |-> "none", records |-> <<>>, survived |-> <<>>,
          post_processed_records |-> <<>>, result |-> [kind |-> "None"]]
    ELSE
    LET internal == is_internal_format(rows[1])
        adapted == IF internal
                   THEN load_internal_phoneview_msg_file(Tail(rows), rows[1])
                   ELSE load_external_phoneview_msg_file(rows)
        fmt == IF internal THEN "internal" ELSE "external"
    IN  IF ~adapted.ok
        THEN [format |-> fmt, records |-> <<>>, survived |-> <<>>,
              post_processed_records |-> <<>>,
              result |-> [kind |-> "raise", exc |-> adapted.exc]]
        ELSE
        LET kept == kept_indices(adapted.v, 1, phone, lib)
            post == [i \in DOMAIN kept |-> redacted(adapted.v[kept[i]], kt, koi)]
        IN  [format |-> fmt, records |-> adapted.v, survived |-> kept,
             post_processed_records |-> post,
             result |-> finish(post)]

(***************************************************************************)
(* dump_to_csv                                                             *)
(***************************************************************************)
s_nan == <<"n", "a", "n">>       \* what csv writes for a NaN cell

\* bool(row_dict["inbound"]) at line 297: NaN (no cell) is truthy
inbound_is_true(row) == IF "inbound" \in DOMAIN row THEN row["inbound"] ELSE TRUE

\* row_dict.get(column, ""), lines 294-295, as the csv writer prints it
cell_or_empty(df, row, column) ==
    IF column \notin df.columns THEN s_empty
    ELSE IF column \in DOMAIN row THEN row[column]
    ELSE s_nan

\* the record of lines 291-299 for the row numbered row_id, as the list
\* of strings csv.reader gives back for the line csv.DictWriter wrote
dumped_row(df, row, row_id) ==
    << IntToStr(row_id),
       IntToStr(datetime_timestamp(row["timestamp"])),
       cell_or_empty(df, row, "number"),
       cell_or_empty(df, row, "content"),
       IF inbound_is_true(row) THEN PHONEVIEW_INTERNAL_RECEIVED
       ELSE PHONEVIEW_INTERNAL_SENT >>

\* dump_to_csv(dataframe) with no filepath: the CSV text, held as the rows
\* a csv.reader reads from it (header row first), or the exception
dump_to_csv(df) ==
    IF "inbound" \notin df.columns                   \* row_dict["inbound"]
    THEN [ok |-> FALSE, exc |-> "KeyError"]
    ELSE [ok |-> TRUE,
          v |-> <<PHONEVIEW_INTERNAL_DB_FIELDS>>
                \o [i \in DOMAIN df.rows |-> dumped_row(df, df.rows[i], i - 1)]]

(***************************************************************************)
(* erase_labels with the default regexp: a captured run of digits, a "/",  *)
(* then digits                                                             *)
(***************************************************************************)
\* the positions at which the regexp matches: a run of digits, then "/"
match_starts(item) ==
    {b \in DOMAIN item :
        \E k \in b..Len(item) :
            /\ item[k] = "/"
            /\ \A j \in b..(k - 1) : item[j] \in Digits}

\* a regexp whose group also takes the "/"
regexp_search_through_slash(item) ==
    IF match_starts(item) = {} THEN [found |-> FALSE]
    ELSE LET b == CHOOSE x \in match_starts(item) :
                     \A y \in match_starts(item) : x <= y
             k == CHOOSE x \in b..Len(item) :
                     item[x] = "/" /\ \A j \in b..(x - 1) : item[j] \in Digits
         IN  [found |-> TRUE, group |-> SubSeq(item, b, k)]

\* cregexp.search(item) and "".join(m.groups()): the leftmost match, its
\* group taking all the digits up to the "/"
regexp_search(item) ==
    IF match_starts(item) = {} THEN [found |-> FALSE]
    ELSE LET b == CHOOSE x \in match_starts(item) :
                     \A y \in match_starts(item) : x <= y
             k == CHOOSE x \in b..Len(item) :
                     item[x] = "/" /\ \A j \in b..(x - 1) : item[j] \in Digits
         IN  [found |-> TRUE, group |-> SubSeq(item, b, k - 1)]

\* whether line 272 runs: the new item becomes the previous one
remembers(found, suppressed) == found /\ ~suppressed

\* the loop of lines 263-274 from item i on; prev is <<>> for None and
\* <<p>> for the string p
RECURSIVE erase_from(_, _, _)
erase_from(items, i, prev) ==
    IF i > Len(items) THEN <<>>
    ELSE LET m == regexp_search(items[i])
             suppressed == m.found /\ prev = <<m.group>>
             new_item == IF m.found /\ ~suppressed THEN m.group ELSE s_empty
             next_prev == IF remembers(m.found, suppressed)
                          THEN <<m.group>> ELSE prev
         IN  <<new_item>> \o erase_from(items, i + 1, next_prev)

erase_labels(items) == erase_from(items, 1, <<>>)

(***************************************************************************)
(* Inputs.                                                                 *)
(***************************************************************************)
s_hi == <<"h", "i">>
s_yo == <<"y", "o">>
s_Sent == <<"S", "e", "n", "t">>
s_iMessage == <<"i", "M", "e", "s", "s", "a", "g", "e">>
s_SMS == <<"S", "M", "S">>

\* The rows an input file is made of.  Any row can be the first one: the
\* test of line 198 alone decides how the file is read.
RowPool ==
    { \* headers of the internal format; the second has no flags and no
      \* address column
      <<s_id, s_date, s_address, s_text, s_flags>>,
      <<s_date, s_text, s_grouptitle>>,
      \* internal rows: the epochs 1 and 2 are the same wall time; the
      \* third row is shorter than either header
      <<<<"1">>, <<"2">>, <<"+", "1", " ", "2">>, s_hi, <<"2">>>>,
      <<<<"2">>, <<"1">>, <<"1", "3">>, s_yo, <<"3">>>>,
      <<<<"3">>, <<"0">>>>,
      \* external rows: the first holds one internal field name, the
      \* second two, the third has no channel-type column, the fourth is
      \* later than the others
      <<PHONEVIEW_EXTERNAL_RECEIVED, TS_A, <<"A">>, <<"1", "2">>, s_text, s_iMessage>>,
      <<s_Sent, TS_B, s_id, <<"1", "3">>, s_text, s_iMessage>>,
      <<PHONEVIEW_EXTERNAL_RECEIVED, TS_C, <<"A">>, <<"1", "2">>, s_yo>>,
      <<PHONEVIEW_EXTERNAL_RECEIVED, TS_C, <<"A">>, <<"1", "2">>, s_hi, s_SMS>>,
      \* one internal field name, twice
      <<s_id, s_id>> }

\* the phone_number argument of load_csv
PhoneArgs == {None, PyStr(<<"1", "-", "2">>), PyInt(12)}

\* the labels an erase_labels argument is made of
LabelPool ==
    { <<"1", "/", "1", "2">>, <<"2", "/", "1", "2">>, <<"1", "2", "/", "1">>,
      <<"a", "1", "/", "2">>, <<"1", "a", "/">>, <<"/">>, <<"1">>, <<>> }

\* the arguments of _compare_phone_numbers
PhonePool ==
    { PyStr(<<"+", "1", " ", "2">>), PyStr(<<"1", "2">>), PyStr(<<"(", "1", ")", "2">>),
      PyStr(<<"1", "3">>), PyStr(<<"a">>), PyInt(12) }

\* the arguments of _normalize_phone_number
NumChars == {"1", "2", " ", "(", ")", "-", "+", "a"}
NormArgs ==
    {PyStr(t) : t \in SeqsUpTo(NumChars, MaxNumLen)}
    \cup {PyInt(12), PyInt(0), PyInt(0 - 7), IntClass}

Unset == [kind |-> "unset"]

IdleLoad ==
    /\ raw_rows = <<>> /\ phone_number = None /\ keep_type = TRUE
    /\ keep_other_identity = FALSE /\ pc = "idle" /\ format = "none"
    /\ records = <<>> /\ survived = <<>> /\ post_processed_records = <<>>
    /\ result = Unset /\ dumped = Unset /\ reloaded = Unset
IdleErase == lst = <<>> /\ new_lst = <<>> /\ new_lst2 = <<>> /\ epc = "idle"
IdleCompare == phone_numbers = <<>> /\ cmp_result = FALSE /\ cpc = "idle"
IdleNormalize == norm_arg = None /\ norm_result = Unset /\ npc = "idle"

(***************************************************************************)
(* The loader: load_csv on a file, dump_to_csv on the container it         *)
(* returned, load_csv again on what dump_to_csv wrote.                     *)
(***************************************************************************)
Init ==
    /\ have_phonenumbers \in BOOLEAN
    /\ raw_rows \in SeqsUpTo(RowPool, MaxRows)
    /\ phone_number = None /\ keep_type = TRUE /\ keep_other_identity = FALSE
    /\ pc = "start" /\ format = "none"
    /\ records = <<>> /\ survived = <<>> /\ post_processed_records = <<>>
    /\ result = Unset /\ dumped = Unset /\ reloaded = Unset
    /\ IdleErase /\ IdleCompare /\ IdleNormalize

Load ==
    /\ pc = "start"
    /\ \E p \in PhoneArgs, kt \in BOOLEAN, koi \in BOOLEAN :
         LET r == load_csv(raw_rows, p, kt, koi, have_phonenumbers)
         IN  /\ phone_number' = p
             /\ keep_type' = kt
             /\ keep_other_identity' = koi
             /\ format' = r.format
             /\ records' = r.records
             /\ survived' = r.survived
             /\ post_processed_records' = r.post_processed_records
             /\ result' = r.result
    /\ pc' = "loaded"
    /\ UNCHANGED <<have_phonenumbers, raw_rows, dumped, reloaded,
                   erase_vars, cmp_vars, norm_vars>>

Dump ==
    /\ pc = "loaded"
    /\ result.kind = "DataFrame"
    /\ dumped' = dump_to_csv(result)
    /\ pc' = "dumped"
    /\ UNCHANGED <<have_phonenumbers, raw_rows, phone_number, keep_type,
                   keep_other_identity, format, records, survived,
                   post_processed_records, result, reloaded,
                   erase_vars, cmp_vars, norm_vars>>

\* load_csv(filepath) with its default arguments on the dumped file
Reload ==
    /\ pc = "dumped"
    /\ dumped.ok
    /\ reloaded' = load_csv(dumped.v, None, TRUE, FALSE, have_phonenumbers).result
    /\ pc' = "reloaded"
    /\ UNCHANGED <<have_phonenumbers, raw_rows, phone_number, keep_type,
                   keep_other_identity, format, records, survived,
                   post_processed_records, result, dumped,
                   erase_vars, cmp_vars, norm_vars>>

Next == Load \/ Dump \/ Reload

Spec == Init /\ [][Next]_vars

(***************************************************************************)
(* The label compressor, applied once and then to its own output.          *)
(***************************************************************************)
InitErase ==
    /\ lst \in SeqsUpTo(LabelPool, MaxLabels)
    /\ new_lst = <<>> /\ new_lst2 = <<>> /\ epc = "start"
    /\ have_phonenumbers = FALSE
    /\ IdleLoad /\ IdleCompare /\ IdleNormalize

EraseOnce ==
    /\ epc = "start"
    /\ new_lst' = erase_labels(lst)
    /\ epc' = "once"
    /\ UNCHANGED <<lst, new_lst2, have_phonenumbers, raw_rows, phone_number,
                   keep_type, keep_other_identity, pc, format, records,
                   survived, post_processed_records, result, dumped, reloaded,
                   cmp_vars, norm_vars>>

EraseTwice ==
    /\ epc = "once"
    /\ new_lst2' = erase_labels(new_lst)
    /\ epc' = "twice"
    /\ UNCHANGED <<lst, new_lst, have_phonenumbers, raw_rows, phone_number,
                   keep_type, keep_other_identity, pc, format, records,
                   survived, post_processed_records, result, dumped, reloaded,
                   cmp_vars, norm_vars>>

NextErase == EraseOnce \/ EraseTwice

SpecErase == InitErase /\ [][NextErase]_vars

(***************************************************************************)
(* One call of _compare_phone_numbers.                                     *)
(***************************************************************************)
InitCompare ==
    /\ have_phonenumbers \in BOOLEAN
    /\ phone_numbers \in SeqsUpTo(PhonePool, MaxArgs)
    /\ cmp_result = FALSE /\ cpc = "start"
    /\ IdleLoad /\ IdleErase /\ IdleNormalize

Compare ==
    /\ cpc = "start"
    /\ cmp_result' = compare_phone_numbers(phone_numbers, have_phonenumbers)
    /\ cpc' = "done"
    /\ UNCHANGED <<phone_numbers, have_phonenumbers, raw_rows, phone_number,
                   keep_type, keep_other_identity, pc, format, records,
                   survived, post_processed_records, result, dumped, reloaded,
                   erase_vars, norm_vars>>

NextCompare == Compare

SpecCompare == InitCompare /\ [][NextCompare]_vars

(***************************************************************************)
(* One call of _normalize_phone_number.                                    *)
(***************************************************************************)
InitNormalize ==
    /\ have_phonenumbers \in BOOLEAN
    /\ norm_arg \in NormArgs
    /\ norm_result = Unset /\ npc = "start"
    /\ IdleLoad /\ IdleErase /\ IdleCompare

Normalize ==
    /\ npc = "start"
    /\ norm_result' = normalize_phone_number(norm_arg, have_phonenumbers)
    /\ npc' = "done"
    /\ UNCHANGED <<norm_arg, have_phonenumbers, raw_rows, phone_number,
                   keep_type, keep_other_identity, pc, format, records,
                   survived, post_processed_records, result, dumped, reloaded,
                   erase_vars, cmp_vars>>

NextNormalize == Normalize

SpecNormalize == InitNormalize /\ [][NextNormalize]_vars

(***************************************************************************)
(* Properties.                                                             *)
(***************************************************************************)
internal_fields == Range(PHONEVIEW_INTERNAL_DB_FIELDS)

\* C1: a non-empty file is read as internal exactly when its first row
\* holds two different internal field names; then the first row is the
\* header and the rows after it go through the internal adapter, and
\* otherwise every row, the first included, goes through the external one.
C1_FormatDetection ==
    (pc = "loaded" /\ raw_rows # <<>>) =>
        LET first == Range(raw_rows[1])
            two == \E f, g \in internal_fields : f # g /\ f \in first /\ g \in first
            rs == IF two
                  THEN [i \in 1..(Len(raw_rows) - 1) |->
                            internal_record(raw_rows[i + 1], raw_rows[1])]
                  ELSE [i \in 1..Len(raw_rows) |-> external_record(raw_rows[i])]
        IN  /\ format = (IF two THEN "internal" ELSE "external")
            /\ IF \A i \in DOMAIN rs : rs[i].ok
               THEN records = [i \in DOMAIN rs |-> rs[i].rec]
               ELSE /\ result.kind = "raise"
                    /\ \E i \in DOMAIN rs : ~rs[i].ok /\ rs[i].exc = result.exc

\* C1 witness: a first row with exactly two internal field names, read as
\* the header of the rows after it
C1_Witness ==
    /\ pc = "loaded" /\ format = "internal"
    /\ Cardinality(Range(raw_rows[1]) \cap internal_fields) = 2
    /\ Len(records) >= 1 /\ Len(records) = Len(raw_rows) - 1

in_survived(i) == \E k \in DOMAIN survived : survived[k] = i

\* C2: with a target identity, an adapted record that has a number is
\* kept only if its number and the target both normalize, to the same
\* string; an adapted record without a number is always kept.
C2_Filter ==
    (pc = "loaded" /\ phone_number # None) =>
        \A i \in DOMAIN records :
            IF "number" \in DOMAIN records[i]
            THEN in_survived(i) =>
                    LET a == normalize_phone_number(PyStr(records[i]["number"]),
                                                    have_phonenumbers)
                        b == normalize_phone_number(phone_number, have_phonenumbers)
                    IN  a.ok /\ b.ok /\ a.v = b.v
            ELSE in_survived(i)

\* C2 witness: a filter that keeps a record whose number is written
\* unlike the target, and keeps a record that has no number
C2_Witness ==
    /\ pc = "loaded" /\ phone_number # None
    /\ \E i, k \in DOMAIN records :
         /\ "number" \in DOMAIN records[i] /\ in_survived(i)
         /\ PyStr(records[i]["number"]) # phone_number
         /\ "number" \notin DOMAIN records[k] /\ in_survived(k)

\* C3: when keep_other_identity is false no post-processed record, and no
\* row or column of the returned container, has a name or a number.
C3_Redaction ==
    (pc = "loaded" /\ ~keep_other_identity) =>
        /\ \A i \in DOMAIN post_processed_records :
             DOMAIN post_processed_records[i] \cap {"name", "number"} = {}
        /\ result.kind = "DataFrame" =>
             /\ result.columns \cap {"name", "number"} = {}
             /\ \A i \in DOMAIN result.rows :
                  DOMAIN result.rows[i] \cap {"name", "number"} = {}

\* C3 witness: an external file, a target identity, and a kept record
\* that came out of the adapter with a name and a number
C3_Witness ==
    /\ pc = "loaded" /\ ~keep_other_identity /\ phone_number # None
    /\ format = "external" /\ result.kind = "DataFrame"
    /\ \E i \in DOMAIN records :
         in_survived(i) /\ {"name", "number"} \subseteq DOMAIN records[i]

\* C4: load_csv returns None for a file without rows, for a header-only
\* internal file and when the filter leaves no record; whenever it does
\* not raise, it returns None exactly in those cases and otherwise a
\* container with one row per post-processed record.
C4_Absence ==
    pc = "loaded" =>
        /\ Len(raw_rows) = 0 => result.kind = "None"
        /\ (format = "internal" /\ Len(raw_rows) = 1) => result.kind = "None"
        /\ (Len(records) > 0 /\ Len(survived) = 0) => result.kind = "None"
        /\ result.kind \in {"None", "DataFrame", "raise"}
        /\ result.kind = "None" <=>
             (result.kind # "raise" /\ Len(post_processed_records) = 0)
        /\ result.kind = "DataFrame" =>
             /\ Len(result.rows) = Len(post_processed_records)
             /\ Len(result.rows) = Len(survived)

\* C4 witness: records were adapted and the filter dropped every one
C4_Witness ==
    /\ pc = "loaded" /\ Len(records) > 1 /\ Len(survived) = 0
    /\ result.kind = "None"

ts(r) == r["timestamp"]

\* C5: the rows of the returned container are the post-processed records,
\* each once, in ascending timestamp order, records of equal timestamp in
\* the order the file had them.
C5_StableOrder ==
    (pc = "loaded" /\ result.kind = "DataFrame") =>
        LET n == Len(post_processed_records)
        IN  /\ Len(result.rows) = n
            /\ \E f \in [1..n -> 1..n] :
                 /\ \A i, j \in 1..n : i # j => f[i] # f[j]
                 /\ \A i \in 1..n : result.rows[i] = post_processed_records[f[i]]
                 /\ \A i, j \in 1..n : i < j =>
                      \/ ts(result.rows[i]) < ts(result.rows[j])
                      \/ ts(result.rows[i]) = ts(result.rows[j]) /\ f[i] < f[j]

\* C5 witness: a file that is not in timestamp order and has two
\* different records of one timestamp
C5_Witness ==
    /\ pc = "loaded" /\ result.kind = "DataFrame"
    /\ \E i, j \in DOMAIN post_processed_records :
         i < j /\ ts(post_processed_records[i]) > ts(post_processed_records[j])
    /\ \E i, j \in DOMAIN result.rows :
         /\ i < j /\ ts(result.rows[i]) = ts(result.rows[j])
         /\ result.rows[i] # result.rows[j]

\* the cell of a container row, NaN for a missing one
cell(row, column) ==
    IF column \in DOMAIN row THEN [nan |-> FALSE, v |-> row[column]]
    ELSE [nan |-> TRUE]

\* C6: every container loaded from an internal file can be dumped and
\* loaded again, and the reloaded rows have the content, inbound and
\* timestamp of the dumped rows, in their order.
C6_RoundTrip ==
    (format = "internal" /\ pc \in {"dumped", "reloaded"}) =>
        /\ dumped.ok
        /\ pc = "reloaded" =>
             /\ reloaded.kind = "DataFrame"
             /\ Len(reloaded.rows) = Len(result.rows)
             /\ \A i \in DOMAIN result.rows :
                  \A c \in {"content", "inbound", "timestamp"} :
                      cell(reloaded.rows[i], c) = cell(result.rows[i], c)

\* C7 as claimed: compressing the compressed labels changes nothing.
C7_Idempotent == epc = "twice" => new_lst2 = new_lst

all_empty(items) == \A i \in DOMAIN items : items[i] = s_empty

\* C7 as amended: compressing the compressed labels gives one empty label
\* per label, so it changes nothing exactly when the compressed labels are
\* all empty already.
C7_SecondPassBlanks ==
    epc = "twice" =>
        /\ Len(new_lst) = Len(lst)
        /\ Len(new_lst2) = Len(lst)
        /\ all_empty(new_lst2)
        /\ (new_lst2 = new_lst) <=> all_empty(new_lst)

\* C7 witness: a compressed list that still shows two labels
C7_Witness ==
    /\ epc = "twice"
    /\ \E i, j \in DOMAIN new_lst :
         i # j /\ new_lst[i] # s_empty /\ new_lst[j] # s_empty

\* C8: the external adapter fails with an IndexError only on a row of
\* fewer than 5 fields; a row of 5 fields gives a record whose type is "".
C8_FiveFieldRow ==
    (pc = "loaded" /\ format = "external") =>
        /\ (result.kind = "raise" /\ result.exc = "IndexError") =>
              \E i \in DOMAIN raw_rows : Len(raw_rows[i]) < 5
        /\ \A i \in DOMAIN records :
              Len(raw_rows[i]) = 5 => records[i]["type"] = s_empty

normalized(i) == normalize_phone_number(phone_numbers[i], have_phonenumbers)

all_identical ==
    /\ \A i \in DOMAIN phone_numbers : normalized(i).ok
    /\ \A i, j \in DOMAIN phone_numbers : normalized(i).v = normalized(j).v

\* C9 as claimed: for any number of arguments the answer is a boolean,
\* true exactly when every argument normalizes and all normalized forms
\* are the same.
C9_TrueIffAllIdentical ==
    cpc = "done" => (cmp_result \in BOOLEAN /\ (cmp_result <=> all_identical))

\* C9 as amended: the same for one or more arguments; with no argument
\* the answer is false.
C9_TrueIffNonEmptyAllIdentical ==
    cpc = "done" =>
        /\ cmp_result \in BOOLEAN
        /\ cmp_result <=> (Len(phone_numbers) >= 1 /\ all_identical)
        /\ (\E i \in DOMAIN phone_numbers : ~normalized(i).ok) => ~cmp_result

\* C9 witness: three different arguments that compare equal
C9_Witness ==
    /\ cpc = "done" /\ cmp_result /\ Len(phone_numbers) = 3
    /\ Cardinality(Range(phone_numbers)) = 3

\* C10: without the phonenumbers library an integer is returned as its
\* decimal string, and a string is returned without its " ", "(", ")",
\* "-" and "+" characters, the others kept in order.
C10_Fallback ==
    (npc = "done" /\ ~have_phonenumbers) =>
        /\ norm_arg.type = "int" =>
              norm_result.ok /\ norm_result.v = IntToStr(norm_arg.n)
        /\ norm_arg.type = "str" =>
              /\ norm_result.ok
              /\ norm_result.v =
                    SelectSeq(norm_arg.v,
                              LAMBDA c : c \notin {" ", "(", ")", "-", "+"})

====
